---- MODULE Spec2Model ----
(***************************************************************************)
(* Model of the XML merge engine of TEMS (src/tems.py, class XMLMerger)    *)
(* and of the front ends that drive it (src/tems.py cmd_xml_merge,         *)
(* src/tems_tui.py XMLMergeScreen).                                        *)
(*                                                                         *)
(* A document on disk is a File: kind "missing" (no such path), "bad"      *)
(* (exists, ET.parse fails) or "xml" (parses).  A parsed document is its   *)
(* root tag and the ordered sequence of the root's immediate child         *)
(* elements; an element is [tag, name, val], name = "" standing for a      *)
(* missing or empty name attribute and val for the rest of its content     *)
(* (other attributes, nested elements).  layout is "std" when the bytes    *)
(* are exactly what _save_xml emits (declaration, 4-space indentation, no  *)
(* comments) and "raw" otherwise.                                          *)
(*                                                                         *)
(* The merge configuration is the part of self.config the menus read and   *)
(* write (active_mission, missions in dict order, overwrite_existing,      *)
(* backup_enabled) beside merge_config.json, the copy _save_config wrote   *)
(* last.  A file or directory name of scan_for_mods is the sequence of     *)
(* its characters, a path the sequence of its names.                       *)
(***************************************************************************)
EXTENDS Integers, Sequences, FiniteSets, TLC

\* ---------------------------------------------------------------- bounds
MaxDst == 2         \* children of a destination document in Init
MaxSrc == 3         \* children of a source document in Init
MaxCalls == 2       \* direct _merge_xml calls in a run
MaxDocs == 2        \* documents in the mod folder of a session
MaxSessions == 2    \* merge sessions started in a run
MaxClock == 1       \* last clock second a run reaches
MaxOps == 3         \* mission and settings menu operations in a run
MaxFound == 2       \* mission folders scan_mpmissions_folders lists
MaxSelected == 2    \* numbers typed at "Enter numbers (comma-separated)"
MaxSwitches == 1    \* mission switches between the merge sessions of a run
MaxSearch == 2      \* entries of config["mod_search_paths"]

\* ------------------------------------------------------------- documents
Elem(t, n, v) == [tag |-> t, name |-> n, val |-> v]

\* children a server types document holds in Init: named <type> elements
\* (one name with two contents), a <type> without a name, a child with
\* another tag
DstElems ==
    {Elem("type", "A", 1), Elem("type", "A", 2), Elem("type", "B", 1),
     Elem("type", "", 1), Elem("other", "A", 1)}

\* children a mod types document holds in Init
SrcElems ==
    {Elem("type", "A", 2), Elem("type", "A", 3), Elem("type", "B", 2),
     Elem("type", "", 2), Elem("other", "A", 2)}

MissingFile == [kind |-> "missing", root |-> "", layout |-> "raw", kids |-> <<>>]
BadFile == [kind |-> "bad", root |-> "", layout |-> "raw", kids |-> <<>>]
XmlFile(r, l, k) == [kind |-> "xml", root |-> r, layout |-> l, kids |-> k]

SeqsUpTo(S, n) == UNION {[1..m -> S] : m \in 0..n}

\* ------------------------------------------------- roles, missions, paths
Roles == <<"types", "events", "spawnabletypes">>

\* the (tag, root_tag) merge_mod passes to _merge_xml for each role
RoleTag(role) == IF role = "events" THEN "event" ELSE "type"

RoleRoot(role) == IF role = "events" THEN "eventposdef" ELSE role

\* a path is its mission folder and its file name; NoPath is the falsy
\* value of server_paths.get(role) (no key, or an empty string)
NoPath == [mission |-> "", file |-> ""]

TypesPath(m) == [mission |-> m, file |-> "types.xml"]

EventsPath(m) == [mission |-> m, file |-> "cfgeventspawns.xml"]

SpawnPath(m) == [mission |-> m, file |-> "spawnabletypes.xml"]

MissionNames == {"M1", "M2"}

ServerPaths == UNION {{TypesPath(m), EventsPath(m), SpawnPath(m)} : m \in MissionNames}

\* os.path.basename
basename(path) == path.file

\* ------------------------------------------------------ XML parse / save
\* _parse_xml: the root element, or None on any failure
parse_xml(f) ==
    IF f.kind = "xml"
    THEN [ok |-> TRUE, root |-> f.root, kids |-> f.kids]
    ELSE [ok |-> FALSE, root |-> "", kids |-> <<>>]

\* _save_xml: ET.indent + write with xml_declaration: always the standard
\* layout, whatever the layout of the file that was parsed
save_xml(root, kids) == XmlFile(root, "std", kids)

\* ------------------------------------------------------------ _merge_xml
\* In memory every element is an object: remove() finds it by identity.
\* A node is an element with the identity uid.
Node(u, e) == [uid |-> u, e |-> e]

WithUids(kids, base) == [i \in 1..Len(kids) |-> Node(base + i, kids[i])]

Strip(tree) == [i \in 1..Len(tree) |-> tree[i].e]

\* Element.findall(tag): the immediate children with that tag, in order
findall(tree, tag) == SelectSeq(tree, LAMBDA n : n.e.tag = tag)

MaxOf(S) == CHOOSE x \in S : \A y \in S : y <= x

\* existing = {elem.get("name"): elem for elem in server_root.findall(tag)}
\* a dict comprehension: a later element with the same name replaces the
\* earlier one
existing(tree, tag) ==
    LET m == findall(tree, tag)
    IN  [n \in {m[i].e.name : i \in DOMAIN m} |->
            m[MaxOf({i \in DOMAIN m : m[i].e.name = n})].uid]

HasUid(tree, u) == \E i \in DOMAIN tree : tree[i].uid = u

\* list.remove(x) on a tree that holds x
remove(tree, u) == SelectSeq(tree, LAMBDA n : n.uid # u)

\* loop state of _merge_xml
LoopState(st, tr, a, u, s) ==
    [status |-> st, tree |-> tr, added |-> a, updated |-> u, skipped |-> s]

\* merge_elem without the `name in existing` test: every named element is
\* appended
merge_elem_append_always(st, node, ex, overwrite) ==
    IF st.status # "returned" THEN st
    ELSE IF node.e.name = "" THEN st
    ELSE LoopState("returned", Append(st.tree, node),
                   st.added + 1, st.updated, st.skipped)

\* merge_elem whose overwrite branch appends without removing the existing
\* element
merge_elem_no_remove(st, node, ex, overwrite) ==
    IF st.status # "returned" THEN st
    ELSE IF node.e.name = "" THEN st
    ELSE IF node.e.name \in DOMAIN ex
    THEN IF overwrite
         THEN LoopState("returned", Append(st.tree, node),
                        st.added, st.updated + 1, st.skipped)
         ELSE [st EXCEPT !.skipped = @ + 1]
    ELSE LoopState("returned", Append(st.tree, node),
                   st.added + 1, st.updated, st.skipped)

\* merge_elem that ignores overwrite_existing and always replaces
merge_elem_always_overwrite(st, node, ex, overwrite) ==
    IF st.status # "returned" THEN st
    ELSE IF node.e.name = "" THEN st
    ELSE IF node.e.name \in DOMAIN ex
    THEN IF HasUid(st.tree, ex[node.e.name])
         THEN LoopState("returned",
                        Append(remove(st.tree, ex[node.e.name]), node),
                        st.added, st.updated + 1, st.skipped)
         ELSE [st EXCEPT !.status = "raised"]
    ELSE LoopState("returned", Append(st.tree, node),
                   st.added + 1, st.updated, st.skipped)

\* merge_elem that counts an element without a name as skipped
merge_elem_counts_nameless(st, node, ex, overwrite) ==
    IF st.status # "returned" THEN st
    ELSE IF node.e.name = "" THEN [st EXCEPT !.skipped = @ + 1]
    ELSE IF node.e.name \in DOMAIN ex
    THEN IF overwrite
         THEN IF HasUid(st.tree, ex[node.e.name])
              THEN LoopState("returned",
                             Append(remove(st.tree, ex[node.e.name]), node),
                             st.added, st.updated + 1, st.skipped)
              ELSE [st EXCEPT !.status = "raised"]
         ELSE [st EXCEPT !.skipped = @ + 1]
    ELSE LoopState("returned", Append(st.tree, node),
                   st.added + 1, st.updated, st.skipped)

\* merge_elem whose overwrite branch removes the existing element and
\* does not append the source element
merge_elem_remove_only(st, node, ex, overwrite) ==
    IF st.status # "returned" THEN st
    ELSE IF node.e.name = "" THEN st
    ELSE IF node.e.name \in DOMAIN ex
    THEN IF overwrite
         THEN IF HasUid(st.tree, ex[node.e.name])
              THEN LoopState("returned", remove(st.tree, ex[node.e.name]),
                             st.added, st.updated + 1, st.skipped)
              ELSE [st EXCEPT !.status = "raised"]
         ELSE [st EXCEPT !.skipped = @ + 1]
    ELSE LoopState("returned", Append(st.tree, node),
                   st.added + 1, st.updated, st.skipped)

\* merge_elem whose overwrite branch puts the source element first
merge_elem_insert_first(st, node, ex, overwrite) ==
    IF st.status # "returned" THEN st
    ELSE IF node.e.name = "" THEN st
    ELSE IF node.e.name \in DOMAIN ex
    THEN IF overwrite
         THEN IF HasUid(st.tree, ex[node.e.name])
              THEN LoopState("returned",
                             <<node>> \o remove(st.tree, ex[node.e.name]),
                             st.added, st.updated + 1, st.skipped)
              ELSE [st EXCEPT !.status = "raised"]
         ELSE [st EXCEPT !.skipped = @ + 1]
    ELSE LoopState("returned", Append(st.tree, node),
                   st.added + 1, st.updated, st.skipped)

\* one iteration of `for elem in mod_root.findall(tag)`
merge_elem(st, node, ex, overwrite) ==
    IF st.status # "returned" THEN st
    ELSE IF node.e.name = "" THEN st
    ELSE IF node.e.name \in DOMAIN ex
    THEN IF overwrite
         THEN IF HasUid(st.tree, ex[node.e.name])
              THEN LoopState("returned",
                             Append(remove(st.tree, ex[node.e.name]), node),
                             st.added, st.updated + 1, st.skipped)
              ELSE \* ValueError: list.remove(x): x not in list
                   [st EXCEPT !.status = "raised"]
         ELSE [st EXCEPT !.skipped = @ + 1]
    ELSE LoopState("returned", Append(st.tree, node),
                   st.added + 1, st.updated, st.skipped)

RECURSIVE merge_loop(_, _, _, _)
merge_loop(st, src, ex, overwrite) ==
    IF src = <<>> THEN st
    ELSE merge_loop(merge_elem(st, Head(src), ex, overwrite),
                    Tail(src), ex, overwrite)

Outcome(st, wr, f, a, u, s) ==
    [status |-> st, write |-> wr, file |-> f,
     added |-> a, updated |-> u, skipped |-> s]

\* _merge_xml that saves the destination before it looks at the source
merge_xml_save_first(server_file, mod_file, tag, root_tag, overwrite) ==
    LET sp == parse_xml(server_file)
        server_root == IF sp.ok THEN sp.root ELSE root_tag
        server_kids == IF sp.ok THEN sp.kids ELSE <<>>
        mod_root == parse_xml(mod_file)
        tree == WithUids(server_kids, 0)
        src == findall(WithUids(mod_root.kids, Len(server_kids)), tag)
        fin == merge_loop(LoopState("returned", tree, 0, 0, 0), src,
                          existing(tree, tag), overwrite)
    IN  IF ~mod_root.ok
        THEN Outcome("returned", TRUE, save_xml(server_root, server_kids), 0, 0, 0)
        ELSE IF fin.status = "raised"
        THEN Outcome("raised", FALSE, server_file, 0, 0, 0)
        ELSE Outcome("returned", TRUE, save_xml(server_root, Strip(fin.tree)),
                     fin.added, fin.updated, fin.skipped)

\* _merge_xml(server_path, mod_path, tag, root_tag) on the two files read;
\* write says whether _save_xml was reached, file is what it wrote
merge_xml(server_file, mod_file, tag, root_tag, overwrite) ==
    LET sp == parse_xml(server_file)
        server_root == IF sp.ok THEN sp.root ELSE root_tag
        server_kids == IF sp.ok THEN sp.kids ELSE <<>>
        mod_root == parse_xml(mod_file)
        tree == WithUids(server_kids, 0)
        src == findall(WithUids(mod_root.kids, Len(server_kids)), tag)
        fin == merge_loop(LoopState("returned", tree, 0, 0, 0), src,
                          existing(tree, tag), overwrite)
    IN  IF ~mod_root.ok
        THEN Outcome("returned", FALSE, server_file, 0, 0, 0)
        ELSE IF fin.status = "raised"
        THEN Outcome("raised", FALSE, server_file, 0, 0, 0)
        ELSE Outcome("returned", TRUE, save_xml(server_root, Strip(fin.tree)),
                     fin.added, fin.updated, fin.skipped)

\* ------------------------------------------------------ classification
\* the substrings find_mod_xml_files looks for in the lower-cased head
Markers ==
    {"<types>", "<types ", "<type ", "name=", "<eventposdef", "<event ",
     "<spawnabletypes"}

\* the chain with the events test ahead of the types test
classify_events_first(head) ==
    IF "<eventposdef" \in head \/ ("<event " \in head /\ "name=" \in head)
    THEN "events"
    ELSE IF "<types>" \in head \/ "<types " \in head
        \/ ("<type " \in head /\ "name=" \in head)
    THEN "types"
    ELSE IF "<spawnabletypes" \in head
    THEN "spawnabletypes"
    ELSE "none"

\* the chain with the spawnable-types test ahead of the types test
classify_spawn_first(head) ==
    IF "<spawnabletypes" \in head
    THEN "spawnabletypes"
    ELSE IF "<types>" \in head \/ "<types " \in head
        \/ ("<type " \in head /\ "name=" \in head)
    THEN "types"
    ELSE IF "<eventposdef" \in head \/ ("<event " \in head /\ "name=" \in head)
    THEN "events"
    ELSE "none"

\* the if / elif chain over sample_lower
classify(head) ==
    IF "<types>" \in head \/ "<types " \in head
        \/ ("<type " \in head /\ "name=" \in head)
    THEN "types"
    ELSE IF "<eventposdef" \in head \/ ("<event " \in head /\ "name=" \in head)
    THEN "events"
    ELSE IF "<spawnabletypes" \in head
    THEN "spawnabletypes"
    ELSE "none"

\* the size, in bytes, above which find_mod_xml_files passes a file over
MaxXmlSize == 52428800

\* a document of a mod folder: what its first lines show, what ET.parse
\* makes of the whole file, and its size
SizedDoc(h, f, n) == [head |-> h, file |-> f, size |-> n]

Doc(h, f) == SizedDoc(h, f, 1)

\* sample_lower: the lower-cased first lines of a file that is read, and
\* nothing of a file that is passed over unread
sniff(doc) == IF doc.size > MaxXmlSize THEN {} ELSE doc.head

\* find_mod_xml_files with three ifs in place of the if / elif chain
find_mod_xml_files_each_marker(docs) ==
    [role \in {Roles[i] : i \in DOMAIN Roles} |->
        SelectSeq([i \in 1..Len(docs) |-> i],
                  LAMBDA i :
                     \/ role = "spawnabletypes" /\ "<spawnabletypes" \in sniff(docs[i])
                     \/ classify(sniff(docs[i])) = role)]

\* find_mod_xml_files: per role, the documents (by position in the rglob
\* listing) classified under it
find_mod_xml_files(docs) ==
    [role \in {Roles[i] : i \in DOMAIN Roles} |->
        SelectSeq([i \in 1..Len(docs) |-> i],
                  LAMBDA i : classify(sniff(docs[i])) = role)]

\* ------------------------------------------------------- scan_for_mods
\* a file or directory name is the sequence of its characters; the
\* characters the names of the model use, in code point order
Ascii ==
    <<"/", "@", "A", "M", "O", "a", "c", "d", "e", "m", "o", "r", "s", "t", "v", "x">>

Ord(c) == CHOOSE k \in DOMAIN Ascii : Ascii[k] = c

\* str.lower, character by character
lower(s) ==
    [k \in DOMAIN s |->
        IF s[k] = "A" THEN "a" ELSE IF s[k] = "M" THEN "m"
        ELSE IF s[k] = "O" THEN "o" ELSE s[k]]

\* sub in s
Contains(sub, s) ==
    \E k \in 1..(Len(s) - Len(sub) + 1) : SubSeq(s, k, k + Len(sub) - 1) = sub

\* item.startswith("@") or "mod" in item.lower()
LooksLikeMod(item) ==
    (item # <<>> /\ item[1] = "@") \/ Contains(<<"m", "o", "d">>, lower(item))

\* a path is the sequence of its names; str(path) joins them with "/"
RECURSIVE PathStr(_)
PathStr(path) ==
    IF path = <<>> THEN <<>> ELSE <<"/">> \o Head(path) \o PathStr(Tail(path))

\* a < b on Python strings
StrLess(a, b) ==
    \E k \in 1..(Len(a) + 1) :
        /\ k <= Len(b)
        /\ SubSeq(a, 1, k - 1) = SubSeq(b, 1, k - 1)
        /\ k > Len(a) \/ Ord(a[k]) < Ord(b[k])

\* sorted(set(mods_found)): ascending, each path once
RECURSIVE SortPaths(_)
SortPaths(S) ==
    IF S = {} THEN <<>>
    ELSE LET least == CHOOSE p \in S :
                         \A q \in S \ {p} : StrLess(PathStr(p), PathStr(q))
         IN  <<least>> \o SortPaths(S \ {least})

\* an entry of the file system
DirEntry(path) == [path |-> path, isdir |-> TRUE]

FileEntry(path) == [path |-> path, isdir |-> FALSE]

\* os.listdir(d) / Path(d).glob("*"): the entries right under d
Children(tree, d) ==
    {e \in tree : Len(e.path) = Len(d) + 1 /\ SubSeq(e.path, 1, Len(d)) = d}

\* os.path.isdir
isdir(tree, path) == DirEntry(path) \in tree

\* an entry of mod_search_paths: a directory D, or "D/*"
PlainEntry(d) == [dir |-> d, wildcard |-> FALSE]

WildEntry(d) == [dir |-> d, wildcard |-> TRUE]

\* Path(base).parent for base = "D/"
parent(d) == SubSeq(d, 1, Len(d) - 1)

\* what one search path adds to mods_found
ModsUnder(tree, search_path) ==
    IF search_path.wildcard
    THEN IF isdir(tree, search_path.dir)
         THEN {e.path : e \in {c \in Children(tree, parent(search_path.dir)) : c.isdir}}
         ELSE {}
    ELSE IF isdir(tree, search_path.dir)
    THEN {e.path : e \in {c \in Children(tree, search_path.dir) :
                             c.isdir /\ LooksLikeMod(c.path[Len(c.path)])}}
    ELSE {}

\* scan_for_mods
scan_for_mods(tree, search_paths) ==
    SortPaths(UNION {ModsUnder(tree, search_paths[k]) : k \in DOMAIN search_paths})

\* ------------------------------------------------------------ backup_xml
PutFile(folder, n, f) ==
    [m \in DOMAIN folder \cup {n} |-> IF m = n THEN f ELSE folder[m]]

\* the name "<basename>.<YYYYMMDD_HHMMSS>.bak" under backup_folder
BackupName(xml_path, ts) == [file |-> basename(xml_path), ts |-> ts]

\* backup_xml(xml_path): the backup folder afterwards
backup_xml(folder, enabled, file, xml_path, ts) ==
    IF ~enabled THEN folder
    ELSE IF file.kind = "missing" THEN folder
    ELSE PutFile(folder, BackupName(xml_path, ts), file)

\* ----------------------------------------------------------------- state
VARIABLES
    disk,           \* the server documents: path -> File
    mod,            \* the documents of the mod folder, in rglob order
    overwrite,      \* config["merge_rules"]["overwrite_existing"]
    backup_enabled, \* config["backup_enabled"]
    active_mission, \* config["active_mission"]
    missions,       \* config["missions"]: name -> role -> path
    backups,        \* the files of config["backup_folder"]: name -> File
    clock,          \* datetime.now(), in seconds
    ws,             \* per worker: where its merge_mod is
    started,        \* merge sessions started so far
    calls,          \* the _merge_xml calls made so far, oldest first
    order,          \* the keys of config["missions"] in dict (insertion) order
    config_file,    \* merge_config.json: the configuration last saved
    found,          \* the mission folders scan_mpmissions_folders lists
    last,           \* the registry or settings operation that returned last
    classified,     \* what find_mod_xml_files returned
    fs,             \* the entries of the file system the scan walks
    mod_search_paths, \* config["mod_search_paths"]
    mods_found      \* what scan_for_mods returned

vars ==
    <<disk, mod, overwrite, backup_enabled, active_mission, missions,
      backups, clock, ws, started, calls, order, config_file, found, last,
      classified, fs, mod_search_paths, mods_found>>

\* what the mission and settings menus work on beside the configuration
registryVars == <<order, config_file, found, last>>

\* what the two scans of the mod folders work on
scanVars == <<classified, fs, mod_search_paths, mods_found>>

\* the CLI menu runs merge_mod in its own (only) thread; each key press of
\* the terminal front end starts merge_mod in a worker thread of its own
CLIWorkers == {1}

TUIWorkers == {1, 2}

NoFiles == [n \in {} |-> MissingFile]

NoBackup == [made |-> FALSE, name |-> BackupName(NoPath, 0), content |-> MissingFile,
             folderBefore |-> NoFiles, folderAfter |-> NoFiles]

Idle ==
    [pc |-> "idle", sid |-> 0, work |-> <<>>,
     paths |-> [r \in {Roles[i] : i \in DOMAIN Roles} |-> NoPath],
     local |-> MissingFile, bk |-> NoBackup]

\* the record of one _merge_xml call: who made it, on what, what it read
\* (before), what it returned and what the destination was when it ended
Call(w, sid, p, b, s, o, r, a, bk) ==
    [w |-> w, sid |-> sid, path |-> p, before |-> b, src |-> s, overwrite |-> o,
     status |-> r.status, added |-> r.added, updated |-> r.updated,
     skipped |-> r.skipped, after |-> a, bk |-> bk]

\* get_xml_paths falling back on the first registered mission
get_xml_paths_first_mission ==
    [r \in {Roles[i] : i \in DOMAIN Roles} |->
        IF active_mission \in DOMAIN missions
        THEN missions[active_mission][r]
        ELSE IF order # <<>> THEN missions[order[1]][r]
        ELSE NoPath]

\* get_xml_paths: config["missions"].get(active, {}), read with .get(role)
get_xml_paths ==
    [r \in {Roles[i] : i \in DOMAIN Roles} |->
        IF active_mission \in DOMAIN missions
        THEN missions[active_mission][r]
        ELSE NoPath]

AllPaths(m) == [types |-> TypesPath(m), events |-> EventsPath(m),
                spawnabletypes |-> SpawnPath(m)]

\* ---------------------------------------------------------- the registry
\* names a mission folder or a registry entry can carry
RegistryNames == {"M1", "M2", "M3"}

\* a path typed at a prompt of the mission menu, instead of the default
TypedPath == [mission |-> "typed", file |-> "types.xml"]

\* self.config, as far as the menus read and write it
Config(a, m, o, ow, b) ==
    [active_mission |-> a, missions |-> m, order |-> o, overwrite |-> ow,
     backup_enabled |-> b]

config == Config(active_mission, missions, order, overwrite, backup_enabled)

\* list_missions: list(self.config["missions"].keys())
list_missions(cfg) == cfg.order

\* config["missions"][name] = paths: a new key goes last, a key the dict
\* holds keeps its place and gets the new value
SetMission(cfg, name, paths) ==
    [cfg EXCEPT
        !.missions = [n \in DOMAIN cfg.missions \cup {name} |->
                         IF n = name THEN paths ELSE cfg.missions[n]],
        !.order = IF name \in DOMAIN cfg.missions THEN @ ELSE Append(@, name)]

\* del config["missions"][name]
DelMission(cfg, name) ==
    [cfg EXCEPT
        !.missions = [n \in DOMAIN cfg.missions \ {name} |-> cfg.missions[n]],
        !.order = SelectSeq(@, LAMBDA n : n # name)]

\* what a menu operation leaves: self.config, whether _save_config ran,
\* the mission it was about, and how it ended
Result(cfg, saved, arg, ret) == [cfg |-> cfg, saved |-> saved, arg |-> arg, ret |-> ret]

\* set_active_mission without the membership test
set_active_mission_unchecked(cfg, name) ==
    Result([cfg EXCEPT !.active_mission = name], TRUE, name, "ok")

\* set_active_mission(name)
set_active_mission(cfg, name) ==
    IF name \in DOMAIN cfg.missions
    THEN Result([cfg EXCEPT !.active_mission = name], TRUE, name, "ok")
    ELSE Result(cfg, FALSE, name, "not found")

\* _xml_switch_mission: the number typed picks the mission; a number out
\* of range (or no number) is an invalid selection
xml_switch_mission(cfg, sel) ==
    LET idx == sel - 1
    IN  IF 0 <= idx /\ idx < Len(list_missions(cfg))
        THEN set_active_mission(cfg, list_missions(cfg)[idx + 1])
        ELSE Result(cfg, FALSE, "", "invalid")

\* _xml_manage_missions, option 3: a blank path prompt takes the default
\* under the mission's own folder
manual_add(cfg, name, types_p) ==
    IF name = "" THEN Result(cfg, FALSE, "", "none")
    ELSE Result(SetMission(cfg, name,
                    [AllPaths(name) EXCEPT
                        !.types = IF types_p = NoPath THEN @ ELSE types_p]),
                TRUE, name, "ok")

\* _xml_manage_missions, option 4
remove_mission(cfg, sel, yes) ==
    LET idx == sel - 1
        name == list_missions(cfg)[idx + 1]
        removed == DelMission(cfg, name)
        remaining == list_missions(removed)
    IN  IF 0 <= idx /\ idx < Len(list_missions(cfg)) /\ yes
        THEN Result(IF cfg.active_mission = name /\ remaining # <<>>
                    THEN [removed EXCEPT !.active_mission = remaining[1]]
                    ELSE removed,
                    TRUE, name, "ok")
        ELSE Result(cfg, FALSE, "", "none")

\* _xml_manage_missions, option 5: a blank prompt keeps the current path
edit_mission(cfg, sel, tp) ==
    LET idx == sel - 1
        name == list_missions(cfg)[idx + 1]
    IN  IF 0 <= idx /\ idx < Len(list_missions(cfg))
        THEN Result(IF tp = NoPath THEN cfg
                    ELSE [cfg EXCEPT !.missions[name].types = tp],
                    TRUE, name, "ok")
        ELSE Result(cfg, FALSE, "", "none")

\* the loop of auto_configure_missions over the folders to add: a folder
\* whose name the registry holds is passed over
RECURSIVE add_missions(_, _, _)
add_missions(cfg, items, added) ==
    IF items = <<>> THEN [cfg |-> cfg, added |-> added]
    ELSE IF Head(items) \notin DOMAIN cfg.missions
    THEN add_missions(SetMission(cfg, Head(items), AllPaths(Head(items))),
                      Tail(items), added + 1)
    ELSE add_missions(cfg, Tail(items), added)

\* `not config.get("active_mission") or config["active_mission"] not in
\* config["missions"]`
NoValidActive(cfg) ==
    cfg.active_mission = "" \/ cfg.active_mission \notin DOMAIN cfg.missions

\* auto_configure_missions, choice "1"
auto_configure_all(cfg, fnd) ==
    LET r == add_missions(cfg, fnd, 0)
    IN  IF fnd = <<>> THEN Result(cfg, FALSE, "", "none")
        ELSE IF r.added = 0 THEN Result(cfg, FALSE, "", "ok")
        ELSE Result(IF NoValidActive(r.cfg)
                    THEN [r.cfg EXCEPT !.active_mission = fnd[1]]
                    ELSE r.cfg,
                    TRUE, "", "ok")

\* what is typed between two commas at "Enter numbers": a number, or text
\* int() rejects
Number(n) == [isnum |-> TRUE, n |-> n]

NotANumber == [isnum |-> FALSE, n |-> 0]

\* seq[idx] of a Python list: a negative idx counts from the end; ok is
\* FALSE where Python raises IndexError
PyIndex(seq, idx) ==
    IF 0 <= idx /\ idx < Len(seq) THEN [ok |-> TRUE, val |-> seq[idx + 1]]
    ELSE IF idx < 0 /\ 0 - idx <= Len(seq)
    THEN [ok |-> TRUE, val |-> seq[Len(seq) + idx + 1]]
    ELSE [ok |-> FALSE, val |-> ""]

\* auto_configure_missions, choice "2"
auto_configure_selected(cfg, fnd, selected) ==
    LET indices == [i \in DOMAIN selected |-> selected[i].n - 1]
        valid == SelectSeq(indices, LAMBDA idx : 0 <= idx /\ idx < Len(fnd))
        r == add_missions(cfg, [i \in DOMAIN valid |-> fnd[valid[i] + 1]], 0)
        first == PyIndex(fnd, indices[1])
    IN  IF fnd = <<>> THEN Result(cfg, FALSE, "", "none")
        ELSE IF \E i \in DOMAIN selected : ~selected[i].isnum
        THEN Result(cfg, FALSE, "", "invalid")
        ELSE IF r.added = 0 THEN Result(cfg, FALSE, "", "ok")
        ELSE IF ~NoValidActive(r.cfg) THEN Result(r.cfg, TRUE, "", "ok")
        ELSE IF first.ok
        THEN Result([r.cfg EXCEPT !.active_mission = first.val], TRUE, "", "ok")
        ELSE Result(r.cfg, FALSE, "", "invalid")

\* _xml_merge_settings, option 1
toggle_overwrite(cfg) ==
    Result([cfg EXCEPT !.overwrite = ~@], TRUE, "", "ok")

\* _xml_merge_settings, option 2
toggle_backups(cfg) ==
    Result([cfg EXCEPT !.backup_enabled = ~@], TRUE, "", "ok")

\* the operation that returned last: its name, what self.config and
\* merge_config.json were when it began, the mission it was about
Last(op, r, n) ==
    [op |-> op, arg |-> r.arg, ret |-> r.ret, saved |-> r.saved,
     before |-> config, file_before |-> config_file, n |-> n]

\* no menu operation yet: XMLMerger.__init__ has loaded the configuration
Loaded(cfg) ==
    [op |-> "load", arg |-> "", ret |-> "ok", saved |-> TRUE,
     before |-> cfg, file_before |-> cfg, n |-> 0]

\* find_mod_xml_files and scan_for_mods not called yet
NoScan ==
    /\ classified = [role \in {Roles[i] : i \in DOMAIN Roles} |-> <<>>]
    /\ fs = {}
    /\ mod_search_paths = <<>>
    /\ mods_found = <<>>

\* ------------------------------------------------- the merge call, alone
DstFiles ==
    {MissingFile, BadFile}
        \cup {XmlFile("types", "raw", k) : k \in SeqsUpTo(DstElems, MaxDst)}

SrcFiles ==
    {BadFile} \cup {XmlFile("types", "raw", k) : k \in SeqsUpTo(SrcElems, MaxSrc)}

TypesHead == {"<types>", "<type ", "name="}

InitMerge ==
    /\ \E f \in DstFiles :
          disk = [p \in ServerPaths |-> IF p = TypesPath("M1") THEN f ELSE MissingFile]
    /\ \E f \in SrcFiles : mod = <<Doc(TypesHead, f)>>
    /\ overwrite \in BOOLEAN
    /\ backup_enabled = FALSE
    /\ active_mission = "M1"
    /\ missions = [m \in {"M1"} |-> AllPaths(m)]
    /\ backups = NoFiles
    /\ clock = 0
    /\ ws = [w \in TUIWorkers |-> Idle]
    /\ started = 0
    /\ calls = <<>>
    /\ order = <<"M1">>
    /\ config_file = config
    /\ found = <<>>
    /\ last = Loaded(config)
    /\ NoScan

\* merger._merge_xml(srv, mod_types, "type", "types")
MergeCall ==
    /\ Len(calls) < MaxCalls
    /\ LET p == TypesPath("M1")
           r == merge_xml(disk[p], mod[1].file, "type", "types", overwrite)
           after == IF r.write THEN r.file ELSE disk[p]
       IN  /\ disk' = [disk EXCEPT ![p] = after]
           /\ calls' = Append(calls,
                  Call(0, 0, p, disk[p], mod[1].file, overwrite, r, after, NoBackup))
    /\ UNCHANGED <<mod, overwrite, backup_enabled, active_mission, missions,
                   backups, clock, ws, started>>
    /\ UNCHANGED <<registryVars, scanVars>>

NextMerge == MergeCall

SpecMerge == InitMerge /\ [][NextMerge]_vars

\* --------------------------------------- the mission and settings menus
\* a menu operation from its prompt to its return: self.config as it
\* leaves it, merge_config.json rewritten when it reached _save_config
MenuStep(op, r) ==
    /\ active_mission' = r.cfg.active_mission
    /\ missions' = r.cfg.missions
    /\ order' = r.cfg.order
    /\ overwrite' = r.cfg.overwrite
    /\ backup_enabled' = r.cfg.backup_enabled
    /\ config_file' = IF r.saved THEN r.cfg ELSE config_file
    /\ last' = Last(op, r, last.n + 1)
    /\ UNCHANGED <<disk, mod, backups, clock, ws, started, calls, found>>
    /\ UNCHANGED scanVars

\* the numbers typed at "Select mission" / "Enter mission number"
Selections == 0..(Cardinality(RegistryNames) + 1)

\* merger.set_active_mission(name)
SetActiveMission ==
    /\ last.n < MaxOps
    /\ \E name \in RegistryNames :
          MenuStep("set_active", set_active_mission(config, name))

\* cmd_xml_merge option 4, _xml_manage_missions option 1
SwitchMission ==
    /\ last.n < MaxOps
    /\ \E sel \in Selections : MenuStep("switch", xml_switch_mission(config, sel))

ManualAdd ==
    /\ last.n < MaxOps
    /\ \E name \in RegistryNames \cup {""}, types_p \in {NoPath, TypedPath} :
          MenuStep("add", manual_add(config, name, types_p))

RemoveMission ==
    /\ last.n < MaxOps
    /\ \E sel \in Selections, yes \in BOOLEAN :
          MenuStep("remove", remove_mission(config, sel, yes))

EditMission ==
    /\ last.n < MaxOps
    /\ \E sel \in Selections, tp \in {NoPath, TypedPath} :
          MenuStep("edit", edit_mission(config, sel, tp))

AutoConfigureAll ==
    /\ last.n < MaxOps
    /\ MenuStep("add_all", auto_configure_all(config, found))

\* the texts typed at "Enter numbers (comma-separated, e.g. 1,3)"
SelectedTexts ==
    UNION {[1..m -> {Number(n) : n \in 0..(MaxFound + 1)} \cup {NotANumber}] :
             m \in 1..MaxSelected}

AutoConfigureSelected ==
    /\ last.n < MaxOps
    /\ \E selected \in SelectedTexts :
          MenuStep("add_selected", auto_configure_selected(config, found, selected))

ToggleOverwrite ==
    /\ last.n < MaxOps
    /\ MenuStep("toggle_overwrite", toggle_overwrite(config))

ToggleBackups ==
    /\ last.n < MaxOps
    /\ MenuStep("toggle_backups", toggle_backups(config))

\* ------------------------------------------------------ merge sessions
\* the mod documents of a session
TypesDocA == Doc(TypesHead, XmlFile("types", "raw", <<Elem("type", "A", 2)>>))

TypesDocBad == Doc(TypesHead, BadFile)

EventsDoc ==
    Doc({"<eventposdef", "<event ", "name="},
        XmlFile("eventposdef", "raw", <<Elem("event", "A", 2)>>))

SpawnDoc ==
    Doc({"<spawnabletypes"},
        XmlFile("spawnabletypes", "raw", <<Elem("type", "A", 2)>>))

SpawnTypesDoc ==
    Doc({"<spawnabletypes", "<type ", "name="},
        XmlFile("spawnabletypes", "raw", <<Elem("type", "B", 3)>>))

OtherDoc == Doc({"name="}, XmlFile("config", "raw", <<>>))

ModDocs == {TypesDocA, TypesDocBad, EventsDoc, SpawnDoc, SpawnTypesDoc, OtherDoc}

\* the role of M1 left without a path in the configuration ("none": all set)
SpawnHole == {"none", "spawnabletypes"}

AnyHole == {"none", "spawnabletypes", "types"}

InitSession(docs, actives, holes) ==
    /\ \E f \in {MissingFile, XmlFile("types", "raw", <<Elem("type", "A", 1)>>)} :
          disk = [p \in ServerPaths |->
                    IF p = TypesPath("M1") THEN f
                    ELSE IF p = EventsPath("M1") THEN XmlFile("eventposdef", "raw", <<>>)
                    ELSE IF p = TypesPath("M2")
                    THEN XmlFile("types", "raw", <<Elem("type", "B", 1)>>)
                    ELSE MissingFile]
    /\ mod \in SeqsUpTo(docs, MaxDocs)
    /\ overwrite \in BOOLEAN
    /\ backup_enabled \in BOOLEAN
    /\ active_mission \in actives
    /\ \E hole \in holes :
          missions = [m \in MissionNames |->
                        IF m = "M1"
                        THEN [r \in {Roles[i] : i \in DOMAIN Roles} |->
                                IF r = hole THEN NoPath ELSE AllPaths(m)[r]]
                        ELSE AllPaths(m)]
    /\ backups = NoFiles
    /\ clock = 0
    /\ ws = [w \in TUIWorkers |-> Idle]
    /\ started = 0
    /\ calls = <<>>
    /\ order = <<"M1", "M2">>
    /\ config_file = config
    /\ found = <<>>
    /\ last = Loaded(config)
    /\ NoScan

\* after a document: the next one, or, the loops over, merge_mod prints its
\* summary and returns
AfterItem(rest) == IF rest = <<>> THEN "done" ELSE "next"

\* merge_mod up to its first loop: classify the mod's documents, fetch the
\* active mission's paths; return at once when nothing is mergeable
StartSession(w) ==
    /\ ws[w].pc \in {"idle", "done"}
    /\ started < MaxSessions
    /\ started' = started + 1
    /\ LET xml_files == find_mod_xml_files(mod)
           items(role) == [i \in 1..Len(xml_files[role]) |->
                              [role |-> role, doc |-> xml_files[role][i]]]
           work == items("types") \o items("events") \o items("spawnabletypes")
       IN  ws' = [ws EXCEPT ![w] =
                    IF work = <<>>
                    THEN [Idle EXCEPT !.pc = "done", !.sid = started + 1]
                    ELSE [Idle EXCEPT !.pc = "next", !.sid = started + 1,
                                      !.work = work, !.paths = get_xml_paths]]
    /\ UNCHANGED <<disk, mod, overwrite, backup_enabled, active_mission,
                   missions, backups, clock, calls>>
    /\ UNCHANGED <<registryVars, scanVars>>

\* an unconfigured role ending the whole session instead of one document
SkipItem_returns(w) ==
    /\ ws[w].pc = "next"
    /\ ws[w].work # <<>>
    /\ ws[w].paths[Head(ws[w].work).role] = NoPath
    /\ ws' = [ws EXCEPT ![w].work = <<>>, ![w].pc = "done"]
    /\ UNCHANGED <<disk, mod, overwrite, backup_enabled, active_mission,
                   missions, backups, clock, started, calls>>
    /\ UNCHANGED <<registryVars, scanVars>>

\* `if srv:` fails: "Server ... path not configured", on to the next document
SkipItem(w) ==
    /\ ws[w].pc = "next"
    /\ ws[w].work # <<>>
    /\ ws[w].paths[Head(ws[w].work).role] = NoPath
    /\ ws' = [ws EXCEPT ![w].work = Tail(@), ![w].pc = AfterItem(Tail(ws[w].work))]
    /\ UNCHANGED <<disk, mod, overwrite, backup_enabled, active_mission,
                   missions, backups, clock, started, calls>>
    /\ UNCHANGED <<registryVars, scanVars>>

\* self.backup_xml(srv); the clock it reads may have moved on
Backup(w) ==
    /\ ws[w].pc = "next"
    /\ ws[w].work # <<>>
    /\ ws[w].paths[Head(ws[w].work).role] # NoPath
    /\ \E now \in {clock, clock + 1} :
          /\ now <= MaxClock
          /\ clock' = now
          /\ LET srv == ws[w].paths[Head(ws[w].work).role]
                 after == backup_xml(backups, backup_enabled, disk[srv], srv, now)
             IN  /\ backups' = after
                 /\ ws' = [ws EXCEPT ![w].pc = "merge",
                                     ![w].bk = [made |-> backup_enabled
                                                          /\ disk[srv].kind # "missing",
                                                name |-> BackupName(srv, now),
                                                content |-> disk[srv],
                                                folderBefore |-> backups,
                                                folderAfter |-> after]]
    /\ UNCHANGED <<disk, mod, overwrite, backup_enabled, active_mission,
                   missions, started, calls>>
    /\ UNCHANGED <<registryVars, scanVars>>

\* _merge_xml, its first statement: server_root = self._parse_xml(server_path)
MergeRead(w) ==
    /\ ws[w].pc = "merge"
    /\ ws' = [ws EXCEPT ![w].pc = "write",
                        ![w].local = disk[ws[w].paths[Head(ws[w].work).role]]]
    /\ UNCHANGED <<disk, mod, overwrite, backup_enabled, active_mission,
                   missions, backups, clock, started, calls>>
    /\ UNCHANGED <<registryVars, scanVars>>

\* _merge_xml, the rest: parse the mod document, merge in memory, save; a
\* ValueError leaves merge_mod and ends the worker
MergeWrite(w) ==
    /\ ws[w].pc = "write"
    /\ LET item == Head(ws[w].work)
           srv == ws[w].paths[item.role]
           src == mod[item.doc].file
           r == merge_xml(ws[w].local, src, RoleTag(item.role),
                          RoleRoot(item.role), overwrite)
           after == IF r.write THEN r.file ELSE disk[srv]
       IN  /\ disk' = [disk EXCEPT ![srv] = after]
           /\ calls' = Append(calls,
                  Call(w, ws[w].sid, srv, ws[w].local, src, overwrite, r, after,
                       ws[w].bk))
           /\ ws' = [ws EXCEPT ![w].pc = IF r.status = "raised" THEN "crashed"
                                         ELSE AfterItem(Tail(ws[w].work)),
                               ![w].work = IF r.status = "raised" THEN @ ELSE Tail(@)]
    /\ UNCHANGED <<mod, overwrite, backup_enabled, active_mission, missions,
                   backups, clock, started>>
    /\ UNCHANGED <<registryVars, scanVars>>

Session(w) ==
    \/ StartSession(w)
    \/ SkipItem(w)
    \/ Backup(w)
    \/ MergeRead(w)
    \/ MergeWrite(w)

\* cmd_xml_merge, option 2: one merge_mod at a time
NextCLI == \E w \in CLIWorkers : Session(w)

InitCLI == InitSession(ModDocs, {"M1"}, SpawnHole)

SpecCLI == InitCLI /\ [][NextCLI]_vars

\* cmd_xml_merge, option 4, taken when the menu is shown: no merge_mod is
\* running
MenuSwitchMission ==
    /\ \A w \in CLIWorkers : ws[w].pc \in {"idle", "done"}
    /\ last.n < MaxSwitches
    /\ SwitchMission

\* cmd_xml_merge, options 2 and 4 in any order, on any active mission the
\* configuration file may name
NextMissions ==
    \/ \E w \in CLIWorkers : Session(w)
    \/ MenuSwitchMission

\* skip mode, the first mission's types document in place
InitMissions ==
    /\ InitSession({TypesDocA, SpawnDoc}, RegistryNames, SpawnHole)
    /\ ~overwrite
    /\ disk[TypesPath("M1")].kind = "xml"

SpecMissions == InitMissions /\ [][NextMissions]_vars

\* XMLMergeScreen._do_merge_specific: @work(thread=True), one more thread
\* per key press, all on the same XMLMerger
NextTUI == \E w \in TUIWorkers : Session(w)

InitTUI == InitSession({TypesDocA, SpawnTypesDoc, SpawnDoc}, {"M1"}, SpawnHole)

SpecTUI == InitTUI /\ [][NextTUI]_vars

\* one command-line worker, any one role of the active mission unconfigured
InitRoles == InitSession({TypesDocA, SpawnTypesDoc, SpawnDoc}, {"M1"}, AnyHole)

NextRoles == \E w \in CLIWorkers : Session(w)

SpecRoles == InitRoles /\ [][NextRoles]_vars

\* ------------------------------------------ the registry from defaults
\* the folders under mpmissions that hold mission documents, as listed
FoundLists ==
    {f \in SeqsUpTo(RegistryNames, MaxFound) :
        \A i, j \in DOMAIN f : i # j => f[i] # f[j]}

\* XMLMerger.__init__ with no merge_config.json: the defaults, saved
InitRegistry ==
    /\ disk = [p \in ServerPaths |-> MissingFile]
    /\ mod = <<>>
    /\ overwrite = FALSE
    /\ backup_enabled = TRUE
    /\ active_mission = "M1"
    /\ missions = [m \in {"M1"} |-> AllPaths(m)]
    /\ backups = NoFiles
    /\ clock = 0
    /\ ws = [w \in TUIWorkers |-> Idle]
    /\ started = 0
    /\ calls = <<>>
    /\ order = <<"M1">>
    /\ config_file = config
    /\ found \in FoundLists
    /\ last = Loaded(config)
    /\ NoScan

NextRegistry ==
    \/ SetActiveMission
    \/ SwitchMission
    \/ ManualAdd
    \/ RemoveMission
    \/ EditMission
    \/ AutoConfigureAll
    \/ AutoConfigureSelected
    \/ ToggleOverwrite
    \/ ToggleBackups

SpecRegistry == InitRegistry /\ [][NextRegistry]_vars

\* ------------------------------------------- classifying a mod's documents
\* sizes of a document around the ceiling
DocSizes == {1, MaxXmlSize, MaxXmlSize + 1}

\* a mod folder whose first document shows any combination of the markers
InitFind ==
    /\ disk = [p \in ServerPaths |-> MissingFile]
    /\ \E h \in SUBSET Markers, n \in DocSizes, rest \in SeqsUpTo(ModDocs, MaxDocs - 1) :
          mod = <<SizedDoc(h, BadFile, n)>> \o rest
    /\ overwrite = FALSE
    /\ backup_enabled = TRUE
    /\ active_mission = "M1"
    /\ missions = [m \in {"M1"} |-> AllPaths(m)]
    /\ backups = NoFiles
    /\ clock = 0
    /\ ws = [w \in TUIWorkers |-> Idle]
    /\ started = 0
    /\ calls = <<>>
    /\ order = <<"M1">>
    /\ config_file = config
    /\ found = <<>>
    /\ last = Loaded(config)
    /\ NoScan

\* _xml_list_mods: xml_files = merger.find_mod_xml_files(mod)
FindModXmlFiles ==
    /\ last.op = "load"
    /\ classified' = find_mod_xml_files(mod)
    /\ last' = [last EXCEPT !.op = "find", !.n = 1]
    /\ UNCHANGED <<disk, mod, overwrite, backup_enabled, active_mission, missions,
                   backups, clock, ws, started, calls, order, config_file, found,
                   fs, mod_search_paths, mods_found>>

NextFind == FindModXmlFiles

SpecFind == InitFind /\ [][NextFind]_vars

\* ------------------------------------------------ scanning for mod folders
srv == <<"s", "r", "v">>

mods == <<"m", "o", "d", "s">>

etc == <<"e", "t", "c">>

\* the server's folders: mods with a Workshop folder, a folder named after
\* a mod, a folder that is neither, and a file with a mod-like name
BaseTree ==
    {DirEntry(<<srv>>), DirEntry(<<srv, mods>>), DirEntry(<<srv, etc>>),
     DirEntry(<<srv, mods, <<"@", "A">>>>),
     DirEntry(<<srv, mods, <<"M", "o", "d">>>>),
     DirEntry(<<srv, mods, <<"x">>>>),
     FileEntry(<<srv, mods, <<"@", "x">>>>)}

OptionalTree ==
    {DirEntry(<<srv, <<"@", "x">>>>), FileEntry(<<srv, <<"m", "o", "d">>>>),
     DirEntry(<<srv, mods, <<"a", "M", "O", "d">>>>)}

\* the directories a search path may name: existing ones, a file, and one
\* that does not exist
SearchDirs ==
    {<<srv>>, <<srv, mods>>, <<srv, etc>>, <<srv, mods, <<"@", "x">>>>,
     <<srv, <<"x">>>>}

SearchEntries ==
    {PlainEntry(d) : d \in SearchDirs} \cup {WildEntry(d) : d \in SearchDirs}

InitScan ==
    /\ disk = [p \in ServerPaths |-> MissingFile]
    /\ mod = <<>>
    /\ overwrite = FALSE
    /\ backup_enabled = TRUE
    /\ active_mission = "M1"
    /\ missions = [m \in {"M1"} |-> AllPaths(m)]
    /\ backups = NoFiles
    /\ clock = 0
    /\ ws = [w \in TUIWorkers |-> Idle]
    /\ started = 0
    /\ calls = <<>>
    /\ order = <<"M1">>
    /\ config_file = config
    /\ found = <<>>
    /\ last = Loaded(config)
    /\ classified = [role \in {Roles[i] : i \in DOMAIN Roles} |-> <<>>]
    /\ \E extra \in SUBSET OptionalTree : fs = BaseTree \cup extra
    /\ mod_search_paths \in SeqsUpTo(SearchEntries, MaxSearch)
    /\ mods_found = <<>>

\* _xml_quick_merge / _xml_list_mods: mods = merger.scan_for_mods()
ScanForMods ==
    /\ last.op = "load"
    /\ mods_found' = scan_for_mods(fs, mod_search_paths)
    /\ last' = [last EXCEPT !.op = "scan", !.n = 1]
    /\ UNCHANGED <<disk, mod, overwrite, backup_enabled, active_mission, missions,
                   backups, clock, ws, started, calls, order, config_file, found,
                   classified, fs, mod_search_paths>>

NextScan == ScanForMods

SpecScan == InitScan /\ [][NextScan]_vars

\* ------------------------------------------------- vocabulary of the claims
IsNamed(e, tag) == e.tag = tag /\ e.name # ""

\* the source's immediate children that match the tag and carry a name
NamedSrc(c) == SelectSeq(c.src.kids, LAMBDA e : IsNamed(e, "type"))

\* names of the destination's tag-matching children
DstNames(f) == {f.kids[i].name : i \in {j \in DOMAIN f.kids : f.kids[j].tag = "type"}}

\* the named source elements whose name the destination does not hold
AbsentSrc(c) ==
    SelectSeq(c.src.kids,
              LAMBDA e : IsNamed(e, "type") /\ e.name \notin DstNames(c.before))

\* the named source elements whose name the destination holds
PresentSrc(c) ==
    SelectSeq(c.src.kids,
              LAMBDA e : IsNamed(e, "type") /\ e.name \in DstNames(c.before))

Suffix(s, n) == SubSeq(s, Len(s) - n + 1, Len(s))

CallSet == {calls[i] : i \in DOMAIN calls}

\* C1: every merge call on a parseable source returns counters whose sum
\* is the number of tag-matching, named immediate children of the source.
C1_Conservation ==
    \A c \in CallSet :
        c.src.kind = "xml" =>
            /\ c.status = "returned"
            /\ c.added + c.updated + c.skipped = Len(NamedSrc(c))

\* C2: in skip mode, the destination after a second merge of the same
\* source is the destination after the first.
C2_IdempotentSkip ==
    \A k \in 2..Len(calls) :
        (~calls[k].overwrite /\ ~calls[k - 1].overwrite
            /\ calls[k].src = calls[k - 1].src)
            => calls[k].after = calls[k - 1].after

C2_Witness ==
    /\ Len(calls) = 2
    /\ ~calls[2].overwrite
    /\ calls[1].added = 2
    /\ calls[2].skipped = 2
    /\ \E i, j \in DOMAIN calls[1].after.kids :
          i # j /\ calls[1].after.kids[i].name = calls[1].after.kids[j].name
    /\ calls[1].after # calls[1].before

\* C3: in overwrite mode, the destination after a second merge of the same
\* source is the destination after the first.
C3_IdempotentOverwrite ==
    \A k \in 2..Len(calls) :
        (calls[k].overwrite /\ calls[k - 1].overwrite
            /\ calls[k].src = calls[k - 1].src)
            => calls[k].after = calls[k - 1].after

C3_Witness ==
    /\ Len(calls) = 2
    /\ calls[2].overwrite
    /\ calls[1].status = "returned" /\ calls[1].updated = 1 /\ calls[1].added = 1
    /\ calls[2].status = "returned" /\ calls[2].updated = 2
    /\ Len(calls[1].before.kids) = 2
    /\ calls[1].before.kids[1].name = calls[1].before.kids[2].name
    /\ calls[1].after # calls[1].before

\* C4: a merge call whose source does not parse returns 0, 0, 0 and leaves
\* the destination file as it was, missing or unparseable included.
C4_BadSource ==
    \A c \in CallSet :
        c.src.kind # "xml" =>
            /\ c.status = "returned"
            /\ c.added = 0 /\ c.updated = 0 /\ c.skipped = 0
            /\ c.after = c.before

C4_Witness ==
    /\ Len(calls) = 2
    /\ calls[1].src.kind = "bad"
    /\ calls[1].before.kind = "missing"
    /\ disk[TypesPath("M1")].kind = "missing"

\* the calls of worker w's current session that had a backup made
BackedUp(w) ==
    {i \in DOMAIN calls :
        calls[i].w = w /\ calls[i].sid = ws[w].sid /\ calls[i].bk.made}

C6_BackupFidelity ==
    \A c \in CallSet : c.bk.made => c.bk.content = c.before

\* C7: with backups enabled, a finished session has left one backup file
\* per merge into an existing destination, the k-th holding the destination
\* as it was before the k-th merge, clock second shared or not.
C7_BackupPerMerge ==
    \A w \in CLIWorkers :
        ws[w].pc = "done" =>
            \A p \in ServerPaths :
                LET cs == {i \in BackedUp(w) : calls[i].path = p}
                IN  /\ Cardinality({calls[i].bk.name : i \in cs}) = Cardinality(cs)
                    /\ \A i \in cs :
                          /\ calls[i].bk.name \in DOMAIN backups
                          /\ backups[calls[i].bk.name] = calls[i].bk.content

\* C8: every named source element whose name the destination lacks is
\* appended unchanged at the end of the destination, in source order, and
\* added counts them; [A, B] into an empty destination gives [A, B] and
\* added = 2, updated = 0, skipped = 0.
C8_AppendAbsent ==
    \A c \in CallSet :
        c.src.kind = "xml" =>
            /\ c.added = Len(AbsentSrc(c))
            /\ SelectSeq(c.after.kids,
                         LAMBDA e : IsNamed(e, "type")
                                       /\ e.name \notin DstNames(c.before))
                   = AbsentSrc(c)
            /\ \A i, j \in DOMAIN c.after.kids :
                  (i < j /\ IsNamed(c.after.kids[i], "type")
                         /\ c.after.kids[i].name \notin DstNames(c.before))
                      => \E m \in DOMAIN c.src.kids : c.src.kids[m] = c.after.kids[j]

\* C9: in skip mode the destination's children before the call are a prefix
\* of its children after the call, and skipped counts the named source
\* elements whose name the destination already held.
C9_SkipFrame ==
    \A c \in CallSet :
        (~c.overwrite /\ c.src.kind = "xml") =>
            /\ c.status = "returned"
            /\ Len(c.after.kids) >= Len(c.before.kids)
            /\ SubSeq(c.after.kids, 1, Len(c.before.kids)) = c.before.kids
            /\ c.skipped = Len(PresentSrc(c))

C9_Witness ==
    /\ Len(calls) >= 1
    /\ ~calls[1].overwrite
    /\ calls[1].before.kind = "xml" /\ Len(calls[1].before.kids) = 2
    /\ calls[1].skipped >= 1 /\ calls[1].added >= 1
    /\ \E i \in DOMAIN calls[1].src.kids :
          /\ calls[1].src.kids[i].name = calls[1].before.kids[1].name
          /\ calls[1].src.kids[i].tag = calls[1].before.kids[1].tag
          /\ calls[1].src.kids[i].val # calls[1].before.kids[1].val

\* C10: in overwrite mode each named source element whose name the
\* destination holds replaces the destination element: that one is removed,
\* the source element is appended at the end, updated counts it, and the
\* destination element of that name then has the source's content.
C10_OverwriteReplaces ==
    \A c \in CallSet :
        (c.overwrite /\ c.src.kind = "xml") =>
            /\ c.updated = Len(PresentSrc(c))
            /\ Len(c.after.kids) = Len(c.before.kids) + c.added
            /\ Len(c.after.kids) >= Len(NamedSrc(c))
            /\ Suffix(c.after.kids, Len(NamedSrc(c))) = NamedSrc(c)

\* C11: whatever registry operations have run, a non-empty activeMission
\* is a key of missions whenever the registry holds at least one mission.
C11_ActiveIsRegistered ==
    (active_mission # "" /\ DOMAIN missions # {})
        => active_mission \in DOMAIN missions

\* C12: removing the active mission makes the first remaining mission the
\* active one, or clears activeMission when none remains; removing another
\* mission leaves activeMission as it was.
C12_RemoveReassigns ==
    (last.op = "remove" /\ last.arg # "") =>
        IF last.before.active_mission = last.arg
        THEN IF order # <<>>
             THEN active_mission = order[1]
             ELSE active_mission = ""
        ELSE active_mission = last.before.active_mission

\* C13: set_active_mission with a name the registry does not hold returns
\* with activeMission, missions and the configuration file as they were;
\* with a name it holds, activeMission is that name, nothing else of the
\* configuration changed, and the file is the configuration.
C13_SetActive ==
    last.op = "set_active" =>
        IF last.arg \in DOMAIN last.before.missions
        THEN /\ config = [last.before EXCEPT !.active_mission = last.arg]
             /\ config_file = config
        ELSE /\ last.ret = "not found"
             /\ config = last.before
             /\ config_file = last.file_before

C13_Witness ==
    /\ last.op = "set_active"
    /\ last.arg \notin DOMAIN missions
    /\ DOMAIN missions # {}
    /\ last.file_before # last.before
    /\ config_file # config

\* C14: when a registry or settings operation has returned, the
\* configuration file is the configuration in memory.
C14_Persisted == last.op # "load" => config_file = config

\* the documents (positions of the listing) a role's list holds
Listed(role) == {classified[role][k] : k \in DOMAIN classified[role]}

TypesMarked(h) ==
    "<types>" \in h \/ "<types " \in h \/ ("<type " \in h /\ "name=" \in h)

EventsMarked(h) == "<eventposdef" \in h \/ ("<event " \in h /\ "name=" \in h)

SpawnMarked(h) == "<spawnabletypes" \in h

\* C15: find_mod_xml_files lists a document under types when its sniffed
\* head carries a types marker, otherwise under events when it carries an
\* events marker, otherwise under spawnabletypes when it carries that
\* marker, otherwise nowhere; for every combination of the markers.
C15_Priority ==
    last.op = "find" =>
        \A i \in DOMAIN mod :
            LET h == sniff(mod[i])
            IN  /\ i \in Listed("types") <=> TypesMarked(h)
                /\ i \in Listed("events") <=> (~TypesMarked(h) /\ EventsMarked(h))
                /\ i \in Listed("spawnabletypes")
                      <=> (~TypesMarked(h) /\ ~EventsMarked(h) /\ SpawnMarked(h))

C15_Witness ==
    /\ last.op = "find"
    /\ mod[1].head = Markers
    /\ mod[1].size <= MaxXmlSize
    /\ 1 \in Listed("types")
    /\ Len(mod) = 2 /\ 2 \in Listed("events")

\* C16: in the result every document is under at most one role and at most
\* once in that role's list, and a document whose head shows only the
\* spawnabletypes marker is under spawnableTypes and under no other role.
C16_OneRoleOnce ==
    last.op = "find" =>
        /\ \A r1, r2 \in DOMAIN classified : r1 # r2 => Listed(r1) \cap Listed(r2) = {}
        /\ \A r \in DOMAIN classified :
              \A j, k \in DOMAIN classified[r] :
                  j # k => classified[r][j] # classified[r][k]
        /\ \A i \in DOMAIN mod :
              sniff(mod[i]) = {"<spawnabletypes"} =>
                  /\ i \in Listed("spawnabletypes")
                  /\ i \notin Listed("types") \cup Listed("events")

C16_Witness ==
    /\ last.op = "find"
    /\ mod[1].head = {"<spawnabletypes"}
    /\ mod[1].size <= MaxXmlSize
    /\ Len(mod) = 2
    /\ mod[2].head = {"<spawnabletypes", "<type ", "name="}
    /\ classified["spawnabletypes"] = <<1>>
    /\ classified["types"] = <<2>>

\* C17: the sequence scan_for_mods returns is ascending without repeats,
\* and every entry is a directory whose name starts with "@" or contains
\* "mod" in any case, whether a plain or a wildcard search path found it.
C17_ModRootsSorted ==
    last.op = "scan" =>
        /\ \A j, k \in DOMAIN mods_found :
              j < k => StrLess(PathStr(mods_found[j]), PathStr(mods_found[k]))
        /\ \A k \in DOMAIN mods_found :
              /\ isdir(fs, mods_found[k])
              /\ LooksLikeMod(mods_found[k][Len(mods_found[k])])

\* worker w is inside merge_mod
InSession(w) == ws[w].pc \in {"next", "merge", "write"}

\* the merge call before calls[j] on the same destination, if any
PrevOnPath(j) ==
    {i \in 1..(j - 1) :
        /\ calls[i].path = calls[j].path
        /\ \A k \in (i + 1)..(j - 1) : calls[k].path # calls[j].path}

\* C18: at no time are two merge sessions in progress, and every merge
\* call read its destination as the merge call before it on that
\* destination left it (no call reads between another's read and write).
C18_OneSessionAtATime ==
    /\ \A w1, w2 \in TUIWorkers : (InSession(w1) /\ InSession(w2)) => w1 = w2
    /\ \A j \in DOMAIN calls :
          \A i \in PrevOnPath(j) : calls[j].before = calls[i].after

\* the documents of the active mission, none when it is not registered
ActiveDocs ==
    IF active_mission \in DOMAIN missions
    THEN {missions[active_mission][Roles[i]] : i \in DOMAIN Roles}
    ELSE {}

AbsentNames(c) == {AbsentSrc(c)[k].name : k \in DOMAIN AbsentSrc(c)}

\* C20: within one merge call a name appended once counts as present from
\* then on: added is the number of distinct absent names, and in skip mode
\* every other named source element is skipped, so a source [A, A] into a
\* destination without A gives added = 1, skipped = 1.
C20_AppendRegisters ==
    \A c \in CallSet :
        c.src.kind = "xml" =>
            /\ c.added = Cardinality(AbsentNames(c))
            /\ ~c.overwrite => c.skipped = Len(NamedSrc(c)) - c.added

\* the children of the destination a returned call kept: what precedes
\* the elements it appended
Kept(c) == SubSeq(c.after.kids, 1, Len(c.after.kids) - (c.added + c.updated))

\* the tag-matching children named n, in document order
Named(kids, n) == SelectSeq(kids, LAMBDA e : e.tag = "type" /\ e.name = n)

\* C21: of several destination elements with one name the first is the
\* canonical one: an overwriting call whose source holds that name
\* replaces the first occurrence and keeps the later ones.
C21_FirstIsCanonical ==
    \A c \in CallSet :
        (c.overwrite /\ c.src.kind = "xml" /\ c.status = "returned") =>
            \A k \in DOMAIN PresentSrc(c) :
                Named(Kept(c), PresentSrc(c)[k].name)
                    = Tail(Named(c.before.kids, PresentSrc(c)[k].name))

\* the tag-matching children of a document carry pairwise distinct names
UniqueNames(f) ==
    \A i, j \in DOMAIN f.kids :
        (i # j /\ f.kids[i].tag = "type" /\ f.kids[j].tag = "type")
            => f.kids[i].name # f.kids[j].name

\* C22: a destination whose tag-matching elements have pairwise distinct
\* names before a merge call has them pairwise distinct after it, whatever
\* the source and the setting of overwriteExisting.
C22_UniquenessPreserved ==
    \A c \in CallSet : UniqueNames(c.before) => UniqueNames(c.after)

\* C23: a merge call on a parseable source completes normally, in either
\* mode: it returns its counters after writing the destination once, also
\* when an overwriting call meets a second source element of a name the
\* destination held.
C23_CompletesNormally ==
    \A c \in CallSet :
        c.src.kind = "xml" =>
            /\ c.status = "returned"
            /\ c.after.kind = "xml" /\ c.after.layout = "std"

Nameless(e) == e.tag = "type" /\ e.name = ""

\* a document without its tag-matching children that lack a name
NamelessFree(f) == [f EXCEPT !.kids = SelectSeq(@, LAMBDA e : ~Nameless(e))]

\* C24: a tag-matching source element without a name (or with an empty
\* one) has no effect: the call ends, counts and leaves the destination as
\* it would for the source without these elements, and the destination's
\* own nameless elements are the ones it had.
C24_NamelessSkipped ==
    \A c \in CallSet :
        c.src.kind = "xml" =>
            LET r == merge_xml(c.before, NamelessFree(c.src), "type", "types",
                               c.overwrite)
            IN  /\ c.status = r.status
                /\ c.added = r.added /\ c.updated = r.updated
                /\ c.skipped = r.skipped
                /\ c.after = IF r.write THEN r.file ELSE c.before
                /\ SelectSeq(c.after.kids, Nameless)
                       = SelectSeq(c.before.kids, Nameless)

C24_Witness ==
    /\ Len(calls) = 1
    /\ calls[1].overwrite
    /\ calls[1].status = "returned"
    /\ \E i \in DOMAIN calls[1].src.kids : Nameless(calls[1].src.kids[i])
    /\ \E i \in DOMAIN calls[1].before.kids : Nameless(calls[1].before.kids[i])
    /\ calls[1].added = 1 /\ calls[1].updated = 1 /\ calls[1].skipped = 0
    /\ Len(calls[1].src.kids) = 3

\* the non-empty names of the source's tag-matching elements
SrcNames(c) == {NamedSrc(c)[k].name : k \in DOMAIN NamedSrc(c)}

\* C25: after a completed merge call on a parseable destination the names
\* of its tag-matching elements are those it had together with the
\* non-empty names of the source's; and no call takes a name away.
C25_NameUnion ==
    \A c \in CallSet :
        /\ (c.before.kind = "xml" /\ c.status = "returned")
              => DstNames(c.after) = DstNames(c.before) \cup SrcNames(c)
        /\ DstNames(c.before) \subseteq DstNames(c.after)

C25_Witness ==
    /\ Len(calls) = 2
    /\ calls[1].overwrite /\ calls[1].status = "returned"
    /\ calls[1].before.kind = "xml" /\ ~UniqueNames(calls[1].before)
    /\ calls[1].updated = 1 /\ calls[1].added = 1
    /\ calls[2].status = "returned" /\ calls[2].updated = 2
    /\ DstNames(calls[2].after) = {"A", "B"}

\* a destination child the call has no business with: another tag, or a
\* name the source does not hold
Untouched(c, e) == e.tag # "type" \/ e.name \notin SrcNames(c)

\* C26: an overwriting call leaves the destination children whose name the
\* source does not hold, and those with another tag, as they were and in
\* their order, ahead of every element it appends.
C26_OverwriteFrame ==
    \A c \in CallSet :
        (c.overwrite /\ c.src.kind = "xml") =>
            /\ SelectSeq(c.after.kids, LAMBDA e : Untouched(c, e))
                   = SelectSeq(c.before.kids, LAMBDA e : Untouched(c, e))
            /\ \A i \in DOMAIN c.after.kids :
                  Untouched(c, c.after.kids[i])
                      => i <= Len(c.after.kids) - (c.added + c.updated)

C26_Witness ==
    /\ Len(calls) = 1
    /\ calls[1].overwrite /\ calls[1].status = "returned"
    /\ calls[1].updated = 1 /\ calls[1].added = 1
    /\ Len(calls[1].before.kids) = 2
    /\ calls[1].before.kids[1].tag = "other"
    /\ calls[1].after.kids[1] = calls[1].before.kids[1]
    /\ Len(calls[1].after.kids) = 3

\* --------------------------------------------------------- C27 and C29
\* the calls the current (or last) session of worker w made, in order
SessionCalls(w) == SelectSeq(calls, LAMBDA c : c.w = w /\ c.sid = ws[w].sid)

\* the classified documents of the mod, role by role in merge_mod's order
WorkItems ==
    LET xml_files == find_mod_xml_files(mod)
        items(role) == [i \in 1..Len(xml_files[role]) |->
                           [role |-> role, doc |-> xml_files[role][i]]]
    IN  items("types") \o items("events") \o items("spawnabletypes")

\* those of them whose role has a destination path in the active mission
ConfiguredItems == SelectSeq(WorkItems, LAMBDA it : get_xml_paths[it.role] # NoPath)

\* C27: when a merge session has ended, the merge calls it made are exactly
\* the classified documents whose role has a destination path configured in
\* the active mission, in order and each on its role's path: the documents
\* of an unconfigured role are skipped without a merge and without a backup
\* (every backup in the folder was made for a merge call), and the roles
\* after it are still merged.
C27_UnconfiguredRoleSkipped ==
    \A w \in CLIWorkers :
        ws[w].pc = "done" =>
            /\ Len(SessionCalls(w)) = Len(ConfiguredItems)
            /\ \A k \in DOMAIN ConfiguredItems :
                  /\ SessionCalls(w)[k].path = get_xml_paths[ConfiguredItems[k].role]
                  /\ SessionCalls(w)[k].src = mod[ConfiguredItems[k].doc].file
            /\ \A c \in CallSet : c.path # NoPath
            /\ DOMAIN backups \subseteq {c.bk.name : c \in {d \in CallSet : d.bk.made}}

\* a session that skipped a types document, the types path being
\* unconfigured, and went on to merge a spawnable-types document
C27_Witness ==
    /\ ws[1].pc = "done"
    /\ get_xml_paths["types"] = NoPath
    /\ \E k \in DOMAIN WorkItems : WorkItems[k].role = "types"
    /\ \E k \in DOMAIN SessionCalls(1) :
          SessionCalls(1)[k].path = get_xml_paths["spawnabletypes"]

\* C29: a document with the <spawnabletypes root, a <type child and name= in
\* its head is listed under types and not under spawnabletypes; every merge
\* call a session makes for it is on the active mission's types document,
\* never on the spawnable-types document, a returned call leaves its type
\* element there, and a finished session with the types path configured has
\* made such a call.
C29_SpawnRootWithTypesIsTypes ==
    /\ \A i \in DOMAIN mod :
          mod[i] = SpawnTypesDoc =>
              /\ \E k \in DOMAIN find_mod_xml_files(mod)["types"] :
                    find_mod_xml_files(mod)["types"][k] = i
              /\ \A k \in DOMAIN find_mod_xml_files(mod)["spawnabletypes"] :
                    find_mod_xml_files(mod)["spawnabletypes"][k] # i
    /\ \A c \in CallSet :
          c.src = SpawnTypesDoc.file =>
              /\ c.path = get_xml_paths["types"]
              /\ c.path # SpawnPath(active_mission)
              /\ c.status = "returned" =>
                    \E k \in DOMAIN c.after.kids :
                        c.after.kids[k].tag = "type" /\ c.after.kids[k].name = "B"
    /\ \A w \in CLIWorkers :
          (/\ ws[w].pc = "done"
           /\ get_xml_paths["types"] # NoPath
           /\ \E i \in DOMAIN mod : mod[i] = SpawnTypesDoc) =>
              \E k \in DOMAIN SessionCalls(w) :
                  SessionCalls(w)[k].src = SpawnTypesDoc.file

\* a returned merge of such a document into types.xml while the mission has
\* a spawnable-types document configured
C29_Witness ==
    \E c \in CallSet :
        /\ c.src = SpawnTypesDoc.file
        /\ c.status = "returned"
        /\ c.path = TypesPath("M1")
        /\ get_xml_paths["spawnabletypes"] = SpawnPath("M1")

\* C28: when auto_configure_missions (add all or add selected) has added
\* at least one mission while activeMission was empty or not a registered
\* mission, it returned normally and activeMission is a key of missions.
C28_AutoConfigureSetsRegisteredActive ==
    (/\ last.op \in {"add_all", "add_selected"}
     /\ NoValidActive(last.before)
     /\ DOMAIN missions # DOMAIN last.before.missions) =>
        /\ last.ret = "ok"
        /\ active_mission \in DOMAIN missions

\* C30: every directory scan_for_mods returns is an immediate child of the
\* directory D of one of the search entries, be the entry the plain
\* directory D or the wildcard D/*.
C30_FoundUnderSearchDir ==
    last.op = "scan" =>
        \A k \in DOMAIN mods_found :
            \E j \in DOMAIN mod_search_paths :
                parent(mods_found[k]) = mod_search_paths[j].dir
====
